---- MODULE Spec2Model ----
(***************************************************************************)
(* A model of the todo HTTP service of src/main.go: the four /todo         *)
(* handlers, the landing page handler, the MongoDB collection they work    *)
(* on, and main's signal-triggered shutdown.                                *)
(*                                                                         *)
(* Strings (titles, the {id} URL parameter, rendered ids) are sequences of *)
(* one-character strings, so trimming, hex encoding and hex parsing are    *)
(* computed.  An ObjectID is its sequence of 12 bytes.                     *)
(***************************************************************************)
EXTENDS Integers, Sequences, FiniteSets, TLC

\* ------------------------------------------------------------------ bounds
\* Requests handled in one run.
MaxRequests == 2
\* Requests accepted by the server and not yet handled.
MaxInFlight == 1
\* Ticks of the wall clock.
MaxTime == 1

\* ------------------------------------------------------- strings and bytes
HexLower == <<"0","1","2","3","4","5","6","7","8","9","a","b","c","d","e","f">>
HexUpper == <<"0","1","2","3","4","5","6","7","8","9","A","B","C","D","E","F">>

\* unicode.IsSpace, on the characters the model's inputs use.
IsSpace(c) == c \in {" ", "\t"}

RECURSIVE TrimLeft(_)
TrimLeft(s) == IF s # <<>> /\ IsSpace(Head(s)) THEN TrimLeft(Tail(s)) ELSE s

RECURSIVE TrimRight(_)
TrimRight(s) ==
    IF s # <<>> /\ IsSpace(s[Len(s)]) THEN TrimRight(SubSeq(s, 1, Len(s) - 1)) ELSE s

\* strings.TrimSpace
TrimSpace(s) == TrimRight(TrimLeft(s))

\* The characters of the model's strings.
Chars == { HexLower[i] : i \in 1..16 } \cup { HexUpper[i] : i \in 1..16 }
         \cup { " ", "\t", "g" }

\* encoding/hex fromHexChar, as a table: the value of a hex digit of either
\* case, -1 for any other character.
HexValue ==
    [c \in Chars |->
        IF \E i \in 1..16 : HexLower[i] = c
          THEN (CHOOSE i \in 1..16 : HexLower[i] = c) - 1
          ELSE IF \E i \in 1..16 : HexUpper[i] = c
            THEN (CHOOSE i \in 1..16 : HexUpper[i] = c) - 1
            ELSE -1]

fromHexChar(c) == HexValue[c]

NilObjectID == [i \in 1..12 |-> 0]

\* ObjectIDFromHex with the decoder's error dropped: a character that is no
\* hex digit counts as 0.
ObjectIDFromHexLenient(s) ==
    IF Len(s) # 24
      THEN [err |-> TRUE, oid |-> NilObjectID]
      ELSE [err |-> FALSE,
            oid |-> [i \in 1..12 |->
                       16 * (IF fromHexChar(s[2 * i - 1]) < 0 THEN 0
                             ELSE fromHexChar(s[2 * i - 1]))
                       + (IF fromHexChar(s[2 * i]) < 0 THEN 0
                          ELSE fromHexChar(s[2 * i]))]]

\* primitive.ObjectIDFromHex: the length test, then hex.Decode of the 12 pairs.
ObjectIDFromHex(s) ==
    IF Len(s) # 24
      THEN [err |-> TRUE, oid |-> NilObjectID]
      ELSE IF \E i \in 1..24 : fromHexChar(s[i]) < 0
        THEN [err |-> TRUE, oid |-> NilObjectID]
        ELSE [err |-> FALSE,
              oid |-> [i \in 1..12 |->
                         16 * fromHexChar(s[2 * i - 1]) + fromHexChar(s[2 * i])]]

\* ObjectID.Hex: two lowercase digits per byte.
Hex(oid) ==
    [i \in 1..24 |->
        IF i % 2 = 1 THEN HexLower[(oid[(i + 1) \div 2] \div 16) + 1]
                     ELSE HexLower[(oid[i \div 2] % 16) + 1]]

\* The 5 process-unique bytes of every ObjectID this process generates.
processUnique == <<171, 205, 239, 1, 35>>

\* primitive.NewObjectID at time t with the process counter at c: 4 bytes of
\* timestamp, 5 process-unique bytes, 3 bytes of counter, big-endian.
NewObjectID(t, c) ==
    << (t \div 16777216) % 256, (t \div 65536) % 256, (t \div 256) % 256, t % 256 >>
    \o processUnique
    \o << (c \div 65536) % 256, (c \div 256) % 256, c % 256 >>

\* ------------------------------------------------------------------- state
VARIABLES
    store,            \* the "todo" collection, in natural (insertion) order
    objectIDCounter,  \* the driver's process-wide ObjectID counter
    now,              \* the wall clock
    connected,        \* the mongo client is connected
    mainPC,           \* where main is: wait, signalled, disconnected, draining
    procState,        \* running, exited, fatal (log.Fatalf), panicked
    inflight,         \* requests accepted and not yet handled
    served,           \* requests handled so far
    last              \* the request the step into this state handled and what it
                      \* answered; NoRequest when that step ran no handler

vars == <<store, objectIDCounter, now, connected, mainPC, procState, inflight,
          served, last>>

\* ---------------------------------------------------------- request inputs
\* A document an earlier run of the service left in the collection: its ids
\* carry that process's unique bytes, not this one's.
priorProcessUnique == <<18, 52, 86, 120, 154>>

PriorTodo ==
    [_id |-> <<0, 0, 0, 0>> \o priorProcessUnique \o <<0, 0, 1>>,
     id |-> <<0, 0, 0, 0>> \o priorProcessUnique \o <<0, 0, 0>>,
     title |-> <<"a">>, completed |-> FALSE, created_at |-> 0]

\* Titles a client sends: empty, whitespace-only, and an ordinary one.
Titles == { <<>>, <<" ">>, <<"b">> }

\* A request body: syntax is FALSE for a body that is not well-formed JSON;
\* titleOK / completedOK are FALSE when the field holds a value of another
\* JSON type (a number for title, a string for completed).  A field left
\* out is the field's zero value.
Bodies ==
    { [syntax |-> FALSE, titleOK |-> TRUE, title |-> <<>>,
       completedOK |-> TRUE, completed |-> FALSE] }
    \cup
    { b \in [syntax : {TRUE}, titleOK : BOOLEAN, title : Titles,
             completedOK : BOOLEAN, completed : BOOLEAN] :
        /\ (~b.titleOK => b.title = <<>> /\ b.completedOK)
        /\ (~b.completedOK => b.completed = FALSE) }

ToUpper(s) == [i \in 1..Len(s) |->
                 IF fromHexChar(s[i]) >= 0 THEN HexUpper[fromHexChar(s[i]) + 1] ELSE s[i]]

\* The ObjectIDs a client addresses: those of the stored documents (the "id"
\* field, which GET /todo lists), and the id and the _id of the document the
\* earlier run stored, whether it still is stored or not.
RequestOIDs ==
    { store[i].id : i \in 1..Len(store) } \cup { PriorTodo.id, PriorTodo._id }

\* The {id} URL parameters a client sends: the hex form of an ObjectID; for
\* the earlier run's document also the same in upper case and with a leading
\* space; and two malformed ones: one cut short, one with a character that
\* is no hex digit.
IdParams ==
    { Hex(o) : o \in RequestOIDs }
    \cup { ToUpper(Hex(PriorTodo.id)), <<" ">> \o Hex(PriorTodo.id) }
    \cup { SubSeq(Hex(NilObjectID), 1, 23), [Hex(NilObjectID) EXCEPT ![24] = "g"] }

\* ------------------------------------------------------------ JSON decoding
\* json.NewDecoder(r.Body).Decode(&CreateTodo{}): a syntax error leaves the
\* struct untouched; a value of the wrong type is skipped and reported.
DecodeCreateTodo(b) ==
    IF ~b.syntax THEN [err |-> TRUE, title |-> <<>>]
    ELSE [err |-> ~b.titleOK, title |-> IF b.titleOK THEN b.title ELSE <<>>]

\* json.NewDecoder(r.Body).Decode(&UpdateTodo{}): as above; a field of the
\* wrong type is skipped, the other field is still decoded, and the error is
\* returned at the end.
DecodeUpdateTodo(b) ==
    IF ~b.syntax THEN [err |-> TRUE, title |-> <<>>, completed |-> FALSE]
    ELSE [err |-> ~b.titleOK \/ ~b.completedOK,
          title |-> IF b.titleOK THEN b.title ELSE <<>>,
          completed |-> IF b.completedOK THEN b.completed ELSE FALSE]

\* ------------------------------------------------------------ the collection
\* NewTodoModel with Completed set.
NewTodoModelCompleted(oid, title, t) ==
    [id |-> oid, title |-> title, completed |-> TRUE, created_at |-> t]

\* TodoModel as createTodo builds it.
NewTodoModel(oid, title, t) ==
    [id |-> oid, title |-> title, completed |-> FALSE, created_at |-> t]

\* Collection.InsertOne: TodoModel has no field tagged _id, so the driver adds
\* an _id of its own, a new ObjectID, and reports that as InsertedID.
InsertOne(coll, doc, insertedID) ==
    Append(coll, [_id |-> insertedID, id |-> doc.id, title |-> doc.title,
                  completed |-> doc.completed, created_at |-> doc.created_at])

\* The index of the first document whose "id" field is oid, 0 when none.
FirstMatch(coll, oid) ==
    IF \E i \in 1..Len(coll) : coll[i].id = oid
      THEN CHOOSE i \in 1..Len(coll) :
             coll[i].id = oid /\ \A j \in 1..(i - 1) : coll[j].id # oid
      ELSE 0

\* UpdateOne with "completed" left out of $set.
UpdateOneTitleOnly(coll, oid, title, completed) ==
    LET i == IF \E k \in 1..Len(coll) : coll[k].id = oid
               THEN CHOOSE k \in 1..Len(coll) : coll[k].id = oid
               ELSE 0
    IN
    IF i = 0 THEN [coll |-> coll, matched |-> 0, modified |-> 0]
    ELSE LET d == [coll[i] EXCEPT !.title = title] IN
         [coll |-> [coll EXCEPT ![i] = d], matched |-> 1,
          modified |-> IF d = coll[i] THEN 0 ELSE 1]

\* Collection.UpdateOne with filter {"id": oid} and
\* {"$set": {"title": title, "completed": completed}}.
UpdateOne(coll, oid, title, completed) ==
    LET i == FirstMatch(coll, oid) IN
    IF i = 0 THEN [coll |-> coll, matched |-> 0, modified |-> 0]
    ELSE LET d == [coll[i] EXCEPT !.title = title, !.completed = completed] IN
         [coll |-> [coll EXCEPT ![i] = d], matched |-> 1,
          modified |-> IF d = coll[i] THEN 0 ELSE 1]

\* DeleteOne with an empty filter: the first document goes, whatever its id.
DeleteOneAny(coll, oid) ==
    IF coll = <<>> THEN [coll |-> coll, deleted |-> 0]
    ELSE [coll |-> Tail(coll), deleted |-> 1]

\* Collection.DeleteOne with filter {"id": oid}.
DeleteOne(coll, oid) ==
    LET i == FirstMatch(coll, oid) IN
    IF i = 0 THEN [coll |-> coll, deleted |-> 0]
    ELSE [coll |-> SubSeq(coll, 1, i - 1) \o SubSeq(coll, i + 1, Len(coll)),
          deleted |-> 1]

\* getTodos' mapping of the documents read to the wire form.
ToTodoList(docs) ==
    [i \in 1..Len(docs) |->
        [id |-> Hex(docs[i].id), title |-> docs[i].title,
         completed |-> docs[i].completed, created_at |-> docs[i].created_at]]

\* ------------------------------------------------------------------- Init
\* No request handled yet.
NoRequest ==
    [op |-> "none", id |-> <<>>, title |-> <<>>, completed |-> FALSE,
     decErr |-> FALSE, writes |-> <<>>, ret |-> <<>>, count |-> 0,
     data |-> <<>>, storage |-> "none", conn |-> TRUE]

\* The state after init() connected and pinged and main started the server:
\* the collection holds what an earlier run stored.
Init ==
    /\ store = <<PriorTodo>>
    /\ objectIDCounter = 0
    /\ now = 0
    /\ connected = TRUE
    /\ mainPC = "wait"
    /\ procState = "running"
    /\ inflight = 0
    /\ served = 0
    /\ last = NoRequest

\* ------------------------------------------------------------- the server
\* The process runs; a run is followed until MaxRequests requests are handled.
Running == procState = "running" /\ served < MaxRequests

\* The server accepts while ListenAndServe runs and Shutdown has not begun.
Accepting == procState = "running" /\ mainPC \in {"wait", "signalled", "disconnected"}

\* The server accepts a request; its handler runs later, on its own goroutine.
Accept ==
    /\ Accepting
    /\ inflight < MaxInFlight
    /\ served + inflight < MaxRequests
    /\ inflight' = inflight + 1
    /\ last' = NoRequest
    /\ UNCHANGED <<store, objectIDCounter, now, connected, mainPC, procState,
                   served>>

\* The wall clock advances.
Tick ==
    /\ Running
    /\ now < MaxTime
    /\ now' = now + 1
    /\ last' = NoRequest
    /\ UNCHANGED <<store, objectIDCounter, connected, mainPC, procState,
                   inflight, served>>

\* A handler runs for one accepted request.
Handling == procState = "running" /\ inflight > 0

\* The handler returned, having answered `answer`.
Handled(answer) ==
    /\ inflight' = inflight - 1
    /\ served' = served + 1
    /\ last' = answer

\* A storage call succeeds only on a connected client, and then unless the
\* transport or the query fails (ok).
CallOK(ok) == connected /\ ok

\* ---------------------------------------------------------------- handlers
\* A handler's inputs are drawn where its code reads them: the body at the
\* Decode call, the outcome of a storage call at the call.

\* GET /todo.  findOK: Find succeeds; readOK: cursor.All succeeds.  A failed
\* cursor.All goes to checkError, whose log.Fatalf ends the process before
\* anything is written.
getTodos ==
    /\ Handling
    /\ LET req == [NoRequest EXCEPT !.op = "GET", !.conn = connected] IN
       \E findOK \in BOOLEAN :
       IF ~CallOK(findOK)
         THEN /\ Handled([req EXCEPT !.writes = <<500>>, !.storage = "err"])
              /\ UNCHANGED procState
         ELSE \E readOK \in BOOLEAN :
              IF ~readOK
                THEN /\ Handled([req EXCEPT !.storage = "err"])
                     /\ procState' = "fatal"
                ELSE /\ Handled([req EXCEPT !.writes = <<200>>, !.storage = "ok",
                                            !.data = ToTodoList(store)])
                     /\ UNCHANGED procState
    /\ UNCHANGED <<store, objectIDCounter, now, connected, mainPC>>

\* POST /todo.  createTodo takes one ObjectID for the model's ID and InsertOne
\* takes the next one for the document's _id.
createTodo(body) ==
    /\ Handling
    /\ LET dec == DecodeCreateTodo(body)
           req == [NoRequest EXCEPT !.op = "POST", !.title = dec.title,
                                    !.decErr = dec.err]
           todoModel == NewTodoModel(NewObjectID(now, objectIDCounter), dec.title, now)
           insertedID == NewObjectID(now, (objectIDCounter + 1) % 16777216)
       IN
       IF dec.err \/ dec.title = <<>>
         THEN /\ Handled([req EXCEPT !.writes = <<400>>])
              /\ UNCHANGED <<store, objectIDCounter>>
         ELSE /\ objectIDCounter' = (objectIDCounter + 2) % 16777216
              /\ \E insertOK \in BOOLEAN :
                 IF ~CallOK(insertOK)
                   THEN /\ Handled([req EXCEPT !.writes = <<500>>, !.storage = "err",
                                               !.conn = connected])
                        /\ UNCHANGED store
                   ELSE /\ store' = InsertOne(store, todoModel, insertedID)
                        /\ Handled([req EXCEPT !.writes = <<201>>, !.storage = "ok",
                                               !.conn = connected,
                                               !.ret = Hex(insertedID)])
    /\ UNCHANGED <<now, connected, mainPC, procState>>

\* The rest of updateTodo, from the Decode call on, for a well-formed id.  The
\* decode failure is answered 400 but the handler does not return there: it
\* goes on to the title check and the update with whatever was decoded, and
\* answers again.
updateTodoBody(req, objID, body) ==
    LET dec == DecodeUpdateTodo(body)
        decoded == [req EXCEPT !.title = dec.title, !.completed = dec.completed,
                               !.decErr = dec.err,
                               !.writes = IF dec.err THEN <<400>> ELSE <<>>]
        result == UpdateOne(store, objID, dec.title, dec.completed)
    IN
    IF dec.title = <<>>
      THEN /\ Handled([decoded EXCEPT !.writes = Append(@, 400)])
           /\ UNCHANGED store
      ELSE \E updateOK \in BOOLEAN :
           IF ~CallOK(updateOK)
             THEN /\ Handled([decoded EXCEPT !.writes = Append(@, 500),
                                             !.storage = "err", !.conn = connected])
                  /\ UNCHANGED store
             ELSE /\ store' = result.coll
                  /\ Handled([decoded EXCEPT !.writes = Append(@, 200),
                                             !.storage = "ok", !.conn = connected,
                                             !.count = result.modified])

\* PUT /todo/{id}.
updateTodo(idParam) ==
    /\ Handling
    /\ LET id == TrimSpace(idParam)
           parsed == ObjectIDFromHex(id)
           req == [NoRequest EXCEPT !.op = "PUT", !.id = idParam]
       IN
       IF parsed.err
         THEN /\ Handled([req EXCEPT !.writes = <<400>>])
              /\ UNCHANGED store
         ELSE \E body \in Bodies : updateTodoBody(req, parsed.oid, body)
    /\ UNCHANGED <<objectIDCounter, now, connected, mainPC, procState>>

\* DELETE /todo/{id}.  The id is not trimmed here.
deleteTodo(idParam) ==
    /\ Handling
    /\ LET parsed == ObjectIDFromHex(idParam)
           req == [NoRequest EXCEPT !.op = "DELETE", !.id = idParam]
           result == DeleteOne(store, parsed.oid)
       IN
       IF parsed.err
         THEN /\ Handled([req EXCEPT !.writes = <<400>>])
              /\ UNCHANGED store
         ELSE \E deleteOK \in BOOLEAN :
              IF ~CallOK(deleteOK)
                THEN /\ Handled([req EXCEPT !.writes = <<500>>, !.storage = "err",
                                            !.conn = connected])
                     /\ UNCHANGED store
                ELSE IF result.deleted = 0
                  THEN /\ Handled([req EXCEPT !.writes = <<404>>, !.storage = "ok",
                                              !.conn = connected])
                       /\ UNCHANGED store
                  ELSE /\ store' = result.coll
                       /\ Handled([req EXCEPT !.writes = <<200>>, !.storage = "ok",
                                              !.conn = connected,
                                              !.count = result.deleted])
    /\ UNCHANGED <<objectIDCounter, now, connected, mainPC, procState>>

\* GET /.  A failed render goes to checkError and ends the process.
homeHandler(renderOK) ==
    /\ Handling
    /\ IF renderOK
         THEN /\ Handled([NoRequest EXCEPT !.op = "HOME", !.writes = <<200>>])
              /\ UNCHANGED procState
         ELSE /\ Handled([NoRequest EXCEPT !.op = "HOME"])
              /\ procState' = "fatal"
    /\ UNCHANGED <<store, objectIDCounter, now, connected, mainPC>>

\* -------------------------------------------------------------------- main
\* main receives os.Interrupt on stopChan.
Signal ==
    /\ Running
    /\ mainPC = "wait"
    /\ mainPC' = "signalled"
    /\ last' = NoRequest
    /\ UNCHANGED <<store, objectIDCounter, now, connected, procState, inflight,
                   served>>

\* client.Disconnect, the first thing main does after the signal; main panics
\* when it fails.
Disconnect(ok) ==
    /\ Running
    /\ mainPC = "signalled"
    /\ connected' = FALSE
    /\ IF ok THEN mainPC' = "disconnected" /\ UNCHANGED procState
             ELSE procState' = "panicked" /\ UNCHANGED mainPC
    /\ last' = NoRequest
    /\ UNCHANGED <<store, objectIDCounter, now, inflight, served>>

\* server.Shutdown begins: the listeners are closed.
ShutdownBegin ==
    /\ Running
    /\ mainPC = "disconnected"
    /\ mainPC' = "draining"
    /\ last' = NoRequest
    /\ UNCHANGED <<store, objectIDCounter, now, connected, procState, inflight,
                   served>>

\* server.Shutdown returns: nil once no request is in flight, and main
\* returns; the context's error after 30 s otherwise, and main calls
\* log.Fatalf.
ShutdownEnd ==
    /\ Running
    /\ mainPC = "draining"
    /\ procState' = IF inflight = 0 THEN "exited" ELSE "fatal"
    /\ last' = NoRequest
    /\ UNCHANGED <<store, objectIDCounter, now, connected, mainPC, inflight,
                   served>>

\* --------------------------------------------------------------------- Next
Next ==
    \/ Accept
    \/ Tick
    \/ getTodos
    \/ \E body \in { b \in Bodies : b.completedOK /\ ~b.completed } : createTodo(body)
    \/ \E idParam \in IdParams : updateTodo(idParam)
    \/ \E idParam \in IdParams : deleteTodo(idParam)
    \/ \E ok \in BOOLEAN : homeHandler(ok)
    \/ Signal
    \/ \E ok \in BOOLEAN : Disconnect(ok)
    \/ ShutdownBegin
    \/ ShutdownEnd

Spec == Init /\ [][Next]_vars

\* =============================================================== properties
\* A step in which the handler of `op` ran.
HandledStep(op) == last'.op = op

\* The status the client receives: the first one written (later WriteHeader
\* calls are superfluous), 0 when nothing was written.
Status(r) == IF r.writes = <<>> THEN 0 ELSE Head(r.writes)

\* The "id" fields of the documents of a collection.
IDs(coll) == { coll[i].id : i \in 1..Len(coll) }

\* The ObjectIDs handed out so far: by this process, and to the document an
\* earlier run left.
IssuedOIDs ==
    { NewObjectID(t, c) : t \in 0..now, c \in 0..(objectIDCounter - 1) }
    \cup { PriorTodo.id, PriorTodo._id }

LowerHexChars == { HexLower[i] : i \in 1..16 }
AnyHexChars == LowerHexChars \cup { HexUpper[i] : i \in 1..16 }

\* A 24-character lowercase hexadecimal string.
IsLowerHex24(str) == Len(str) = 24 /\ \A i \in 1..Len(str) : str[i] \in LowerHexChars

\* A 24-character hexadecimal string, digits of either case.
IsHex24(str) == Len(str) = 24 /\ \A i \in 1..Len(str) : str[i] \in AnyHexChars

\* Empty or whitespace-only.
IsBlank(str) == \A i \in 1..Len(str) : IsSpace(str[i])

\* coll without its k-th document.
Without(coll, k) == SubSeq(coll, 1, k - 1) \o SubSeq(coll, k + 1, Len(coll))

\* ---------------------------------------------------------------------- C1
\* C1: the id a successful POST /todo returns addresses the created item: a
\* document is stored whose listed id (the hex form of its "id" field, which
\* is what GET lists and what PUT and DELETE match on) is the returned id.
C1_ReturnedIdAddressesItem ==
    (last.op = "POST" /\ last.writes = <<201>>)
        => \E i \in 1..Len(store) : Hex(store[i].id) = last.ret

\* ---------------------------------------------------------------------- C2
\* C2: a POST /todo with a non-empty title that is answered 201 appends
\* exactly one document with that title, completed = FALSE and an "id" that no
\* other document has (it is answered 500, with nothing stored, only when the
\* insert fails); the ids of the stored documents stay pairwise different; no
\* step other than a DELETE removes a document; and a GET /todo answered 200
\* lists every stored document with its id, title and completed.
C2_CreatePersists ==
    [][ /\ (HandledStep("POST") /\ ~last'.decErr /\ last'.title # <<>>) =>
             IF last'.writes = <<201>>
               THEN /\ Len(store') = Len(store) + 1
                    /\ SubSeq(store', 1, Len(store)) = store
                    /\ store'[Len(store')].title = last'.title
                    /\ store'[Len(store')].completed = FALSE
                    /\ store'[Len(store')].id \notin IDs(store)
               ELSE last'.writes = <<500>> /\ last'.storage = "err" /\ store' = store
        /\ \A i, j \in 1..Len(store') : store'[i].id = store'[j].id => i = j
        /\ ~HandledStep("DELETE") => IDs(store) \subseteq IDs(store')
        /\ (HandledStep("GET") /\ last'.writes = <<200>>) =>
             /\ Len(last'.data) = Len(store)
             /\ \A i \in 1..Len(store) :
                  /\ last'.data[i].id = Hex(store[i].id)
                  /\ last'.data[i].title = store[i].title
                  /\ last'.data[i].completed = store[i].completed
      ]_vars

\* A GET lists two items: the earlier run's and one this run created.
C2_Witness ==
    /\ last.op = "GET" /\ last.writes = <<200>>
    /\ Len(last.data) = 2
    /\ last.data[2].id = Hex(NewObjectID(0, 0))
    /\ last.data[2].completed = FALSE

\* ---------------------------------------------------------------------- C3
\* C3: a POST /todo whose title is empty or whitespace-only is answered 400
\* and the persisted items are the same after it as before.  (Stated for the
\* requests whose storage call, if one is made, does not fail.)
C3_BlankTitleRejected ==
    [][ (HandledStep("POST") /\ IsBlank(last'.title) /\ last'.storage # "err")
            => (last'.writes = <<400>> /\ store' = store) ]_vars

\* ---------------------------------------------------------------------- C4
\* C4 as stated: a PUT or DELETE whose id is not a 24-character lowercase
\* hexadecimal string is answered 400, performs no storage operation and
\* leaves the persisted items unchanged.  (Stated for the requests whose body,
\* if one is read, decodes.)
C4_NotLowerHexRejected ==
    [][ ((HandledStep("PUT") \/ HandledStep("DELETE")) /\ ~IsLowerHex24(last'.id)
         /\ ~last'.decErr)
            => (Status(last') = 400 /\ last'.storage = "none" /\ store' = store)
      ]_vars

\* C4 as amended: a PUT whose id, with surrounding whitespace trimmed, is not a
\* 24-character hexadecimal string (digits of either case), and a DELETE whose
\* id as sent is not one, is answered 400, performs no storage operation and
\* leaves the persisted items unchanged.
C4_MalformedIdRejected ==
    [][ (\/ HandledStep("PUT") /\ ~IsHex24(TrimSpace(last'.id))
         \/ HandledStep("DELETE") /\ ~IsHex24(last'.id))
            => (last'.writes = <<400>> /\ last'.storage = "none" /\ store' = store)
      ]_vars

\* A PUT with an id that holds a character that is no hex digit was answered.
C4_Witness ==
    /\ last.op = "PUT"
    /\ Len(last.id) = 24 /\ last.id[24] = "g"
    /\ last.writes = <<400>>

\* ---------------------------------------------------------------------- C5
\* C5: a PUT /todo/{id} with a well-formed id and a non-empty title whose
\* update succeeds changes only title and completed of the document with that
\* id: no document is added, removed or reordered, every document keeps its
\* _id, id and created_at, every other document keeps all its fields, the
\* addressed one has the title and completed sent, and the count answered is
\* 1 exactly when a document changed; when no document has the id, the count
\* is 0 and nothing changes; the answer is 200 unless the body failed to
\* decode.
C5_UpdateFrame ==
    [][ (HandledStep("PUT") /\ last'.storage = "ok") =>
          LET oid == ObjectIDFromHex(TrimSpace(last'.id)).oid IN
          /\ IsHex24(TrimSpace(last'.id))
          /\ last'.title # <<>>
          /\ Len(store') = Len(store)
          /\ \A i \in 1..Len(store) :
               /\ store'[i]._id = store[i]._id
               /\ store'[i].id = store[i].id
               /\ store'[i].created_at = store[i].created_at
               /\ store[i].id # oid => store'[i] = store[i]
               /\ store[i].id = oid =>
                    /\ store'[i].title = last'.title
                    /\ store'[i].completed = last'.completed
          /\ last'.count = (IF store' = store THEN 0 ELSE 1)
          /\ oid \notin IDs(store) => (last'.count = 0 /\ store' = store)
          /\ ~last'.decErr => last'.writes = <<200>>
      ]_vars

\* An update of a listed document was answered 200 with a count of 1 while
\* another document was stored.
C5_Witness ==
    /\ last.op = "PUT" /\ last.writes = <<200>> /\ last.count = 1
    /\ Len(store) = 2

\* ---------------------------------------------------------------------- C6
\* C6: a DELETE /todo/{id} with the id of a stored document, when the storage
\* call succeeds, removes exactly that document and is answered 200 with a
\* count of 1; a DELETE with a well-formed id that no document has (a deleted
\* one included) is answered 404 and removes nothing; an id once handed out
\* and not stored is never stored again, and GET /todo lists stored documents
\* only, so a deleted item never appears again.
C6_DeleteOnce ==
    [][ /\ (HandledStep("DELETE") /\ last'.storage = "ok") =>
             LET oid == ObjectIDFromHex(last'.id).oid IN
             IF oid \in IDs(store)
               THEN /\ last'.writes = <<200>> /\ last'.count = 1
                    /\ \E k \in 1..Len(store) :
                         store[k].id = oid /\ store' = Without(store, k)
                    /\ oid \notin IDs(store')
               ELSE last'.writes = <<404>> /\ store' = store
        /\ (HandledStep("DELETE") /\ last'.storage # "ok") => store' = store
        /\ \A o \in IssuedOIDs : o \notin IDs(store) => o \notin IDs(store')
        /\ (HandledStep("GET") /\ last'.writes = <<200>>) =>
             \A j \in 1..Len(last'.data) :
                 \E i \in 1..Len(store) : last'.data[j].id = Hex(store[i].id)
      ]_vars

\* The second DELETE of the earlier run's document: it was stored, it is
\* gone, and the DELETE was answered 404.
C6_Witness ==
    /\ last.op = "DELETE" /\ last.id = Hex(PriorTodo.id)
    /\ last.writes = <<404>>
    /\ served = 2 /\ store = <<>> /\ objectIDCounter = 0

\* ---------------------------------------------------------------------- C7
\* C7: a PUT /todo/{id} with a well-formed id whose body fails to decode is
\* answered 400 and returns at once, before any storage update, so the
\* persisted items are unchanged.
C7_DecodeFailureReturns ==
    [][ (HandledStep("PUT") /\ IsLowerHex24(last'.id) /\ last'.decErr)
            => (Status(last') = 400 /\ store' = store) ]_vars

\* ---------------------------------------------------------------------- C8
\* C8: every storage failure during a request is answered to that request
\* with a 500 and the process keeps running.
C8_StorageFailureSurfaced ==
    [][ (last'.op # "none" /\ last'.storage = "err")
            => (/\ \E k \in 1..Len(last'.writes) : last'.writes[k] = 500
                /\ procState' = "running") ]_vars

\* ---------------------------------------------------------------------- C9
\* C9: the datastore connection is released only after the server stopped
\* accepting and the requests in flight finished, so no handler performs its
\* storage call on a disconnected client.
C9_NoStorageCallAfterDisconnect ==
    last.storage # "none" => last.conn

\* --------------------------------------------------------------------- C10
\* C10: every request to a /todo endpoint whose handler returns is answered
\* exactly once, never twice, and one answered with a 4xx or 5xx status has
\* written nothing to the store.
C10_ExactlyOneResponse ==
    [][ (last'.op \in {"GET", "POST", "PUT", "DELETE"} /\ procState' = "running")
            => (/\ Len(last'.writes) = 1
                /\ Status(last') >= 400 => store' = store) ]_vars

====
